---- MODULE Spec2Model ----
\* Reference-counted pointers Arc / UniqueArc (src/src/arc.rs) and Rc / UniqueRc
\* (src/src/rc.rs): the life of one allocation of either engine, operated on
\* by several threads.  The header {strong, data} is the shared state; a
\* handle is a pointer to it.  Arc operations are split at their accesses to
\* shared memory (fetch_sub | drop_slow, compare_exchange | ptr::read); the
\* operations of Rc are plain single-threaded code and are one step each.
EXTENDS Integers, FiniteSets, Sequences, TLC

\* ---------------------------------------------------------------- bounds
\* width of usize in bits, scaled down (the counter is an AtomicUsize / Cell<usize>)
UsizeBits == 3
\* number of threads
NumThreads == 2
\* payload values are 1..MaxPayload
MaxPayload == 2
\* handles that are alive (owned by some thread) at the same time
MaxLive == 2
\* handles leaked with mem::forget (Rc's guard is met at USIZE_MAX handles)
MaxLeak == 5
\* increments each thread of the stress scenario makes on the counter payload
StressIncs == 5
\* operations in a sequence run on both engines
MaxOps == 4

USIZE_MAX == 2^UsizeBits - 1
MAX_REFCOUNT == 2^(UsizeBits - 1) - 1

Threads == 1..NumThreads
Payloads == 1..MaxPayload
Engines == {"Arc", "Rc"}
Kinds == {"shared", "unique"}
\* what a step without a result records: a value that is no payload
NoVal == MaxPayload + 1

VARIABLES
  engine,    \* "none" before new(); then the engine of the allocation
  strong,    \* ArcInner::strong / RcBox::strong
  data,      \* ArcInner::data / RcBox::data
  held,      \* held[t]: Arc<T> / Rc<T> handles owned by thread t
  uniq,      \* uniq[t]: UniqueArc<T> / UniqueRc<T> wrappers owned by thread t
  leaked,    \* handles passed to mem::forget by the caller
  pc,        \* pc[t]: where thread t is inside Arc::drop / Arc::try_unwrap
  dtorRuns,  \* runs of the payload destructor (ptr::drop_in_place), 2 = twice or more
  movedOut,  \* times the payload was moved out with ptr::read, 2 = twice or more
  freed,     \* calls of dealloc on the block, 2 = twice or more
  aborted,   \* the process was aborted by a panic
  ev,        \* the last step: operation, outcome, count before the step, result
  incs,      \* incs[t]: increments thread t has made on a counter payload
  hb,        \* which payload accesses are ordered before which thread's present
  twin       \* the results of a run of one engine, for the run of the other

vars == <<engine, strong, data, held, uniq, leaked, pc, dtorRuns, movedOut, freed,
          aborted, ev, incs, hb, twin>>

\* ---------------------------------------------------------------- helpers
RECURSIVE SumOver(_, _)
SumOver(f, S) == IF S = {} THEN 0
                 ELSE LET x == CHOOSE y \in S : TRUE IN f[x] + SumOver(f, S \ {x})

\* handles owned by some thread: shared handles plus exclusive wrappers
Live == SumOver(held, Threads) + SumOver(uniq, Threads)

\* usize arithmetic wraps (fetch_add / fetch_sub are wrapping)
WrapAdd(n) == (n + 1) % (USIZE_MAX + 1)
WrapSub(n) == (n + USIZE_MAX) % (USIZE_MAX + 1)

Bump(n) == IF n < 2 THEN n + 1 ELSE n

\* the record of a step: old is the stored count when the step began
Event(op, ok, val) == [op |-> op, ok |-> ok, old |-> strong, val |-> val]

Idle == \A t \in Threads : pc[t] = "idle"

\* the handle an operation consumes or borrows: an Arc/Rc the thread owns, or
\* the one inside a wrapper it owns (UniqueArc(Arc<T>), UniqueRc(Rc<T>))
Owns(t, k) == IF k = "shared" THEN held[t] > 0 ELSE uniq[t] > 0

Take(t, k) == IF k = "shared"
              THEN held' = [held EXCEPT ![t] = @ - 1] /\ UNCHANGED uniq
              ELSE uniq' = [uniq EXCEPT ![t] = @ - 1] /\ UNCHANGED held

\* The order of the payload accesses (happens-before), kept per thread:
\*   pend[t]  threads with a payload access that is not ordered before the
\*            present of thread t
\*   cpend    threads with a payload access that is not ordered before the
\*            head of the counter's release sequence
\*   got[t]   cpend as it was when t last read the counter in an operation
\*            that goes on to an acquire fence
\*   acc      threads that have accessed the payload
\*   race     the destructor or the move-out ran while pend of its thread
\*            was not empty
HbInit == [pend |-> [t \in Threads |-> {}], cpend |-> {}, got |-> [t \in Threads |-> {}],
           acc |-> {}, race |-> FALSE]

\* no run has been recorded
\*   phase  "first": a run is being recorded; "second": it is being replayed
\*   eng    the engine of the recorded run
\*   log    what each completed operation of the recorded run returned
\*   pos    the operation of log the replay is at
\*   diff   an operation of the replay returned something else than log says
TwinInit == [phase |-> "first", eng |-> "none", log |-> <<>>, pos |-> 1, diff |-> FALSE]

Init ==
  /\ engine = "none"
  /\ strong = 0
  /\ data = NoVal
  /\ held = [t \in Threads |-> 0]
  /\ uniq = [t \in Threads |-> 0]
  /\ leaked = 0
  /\ pc = [t \in Threads |-> "idle"]
  /\ dtorRuns = 0
  /\ movedOut = 0
  /\ freed = 0
  /\ aborted = FALSE
  /\ ev = Event("init", FALSE, NoVal)
  /\ incs = [t \in Threads |-> 0]
  /\ hb = HbInit
  /\ twin = TwinInit

\* ---------------------------------------------------------------- new
\* Arc::new: Box::new(ArcInner { strong: AtomicUsize::new(1), data })
ArcNew(t, v) ==
  /\ ~aborted /\ engine = "none" /\ pc[t] = "idle"
  /\ engine' = "Arc"
  /\ strong' = 1
  /\ data' = v
  /\ held' = [held EXCEPT ![t] = 1]
  /\ ev' = Event("new", TRUE, v)
  /\ UNCHANGED <<uniq, leaked, pc, dtorRuns, movedOut, freed, aborted>>

\* UniqueArc::new: UniqueArc(Arc::new(data))
UniqueArcNew(t, v) ==
  /\ ~aborted /\ engine = "none" /\ pc[t] = "idle"
  /\ engine' = "Arc"
  /\ strong' = 1
  /\ data' = v
  /\ uniq' = [uniq EXCEPT ![t] = 1]
  /\ ev' = Event("unique_new", TRUE, v)
  /\ UNCHANGED <<held, leaked, pc, dtorRuns, movedOut, freed, aborted>>

\* a new that starts the count at 0: Cell::new(0)
RcNew_CountZero(t, v) ==
  /\ ~aborted /\ engine = "none" /\ pc[t] = "idle"
  /\ engine' = "Rc"
  /\ strong' = 0
  /\ data' = v
  /\ held' = [held EXCEPT ![t] = 1]
  /\ ev' = Event("new", TRUE, v)
  /\ UNCHANGED <<uniq, leaked, pc, dtorRuns, movedOut, freed, aborted>>

\* Rc::new: Box::new(RcBox { strong: Cell::new(1), data })
RcNew(t, v) ==
  /\ ~aborted /\ engine = "none" /\ pc[t] = "idle"
  /\ engine' = "Rc"
  /\ strong' = 1
  /\ data' = v
  /\ held' = [held EXCEPT ![t] = 1]
  /\ ev' = Event("new", TRUE, v)
  /\ UNCHANGED <<uniq, leaked, pc, dtorRuns, movedOut, freed, aborted>>

\* UniqueRc::new: UniqueRc(Rc::new(data))
UniqueRcNew(t, v) ==
  /\ ~aborted /\ engine = "none" /\ pc[t] = "idle"
  /\ engine' = "Rc"
  /\ strong' = 1
  /\ data' = v
  /\ uniq' = [uniq EXCEPT ![t] = 1]
  /\ ev' = Event("unique_new", TRUE, v)
  /\ UNCHANGED <<held, leaked, pc, dtorRuns, movedOut, freed, aborted>>

\* ---------------------------------------------------------------- panic!()
\* panic!() either aborts the process (panic = "abort", or a panic handler
\* that does not return) or unwinds out of the call, after which the caller's
\* thread (catch_unwind) and the other threads go on running.
PanicOutcomes == {"abort", "unwind"}

\* ---------------------------------------------------------------- Arc
\* Arc::ref_count: self.inner().strong.load(SeqCst)
ArcRefCount == strong

\* a clone whose increment is lost: the count is read and written in two
\* accesses, and the write is overwritten by another thread's
ArcClone_LostUpdate(t) ==
  /\ ~aborted /\ engine = "Arc" /\ pc[t] = "idle" /\ held[t] > 0
  /\ strong' = strong
  /\ \/ /\ strong > MAX_REFCOUNT
        /\ \E o \in PanicOutcomes : aborted' = (o = "abort")
        /\ ev' = Event("clone", FALSE, NoVal)
        /\ UNCHANGED held
     \/ /\ ~(strong > MAX_REFCOUNT)
        /\ Live < MaxLive
        /\ held' = [held EXCEPT ![t] = @ + 1]
        /\ ev' = Event("clone", TRUE, NoVal)
        /\ UNCHANGED aborted
  /\ UNCHANGED <<engine, data, uniq, leaked, pc, dtorRuns, movedOut, freed>>

\* Clone for Arc: fetch_add(1, Relaxed) first, the guard on the old value after
ArcClone(t) ==
  /\ ~aborted /\ engine = "Arc" /\ pc[t] = "idle" /\ held[t] > 0
  /\ strong' = WrapAdd(strong)
  /\ \/ /\ strong > MAX_REFCOUNT
        /\ \E o \in PanicOutcomes : aborted' = (o = "abort")
        /\ ev' = Event("clone", FALSE, NoVal)
        /\ UNCHANGED held
     \/ /\ ~(strong > MAX_REFCOUNT)
        /\ Live < MaxLive
        /\ held' = [held EXCEPT ![t] = @ + 1]
        /\ ev' = Event("clone", TRUE, NoVal)
        /\ UNCHANGED aborted
  /\ UNCHANGED <<engine, data, uniq, leaked, pc, dtorRuns, movedOut, freed>>

\* a drop that tests the count left by the decrement: fetch_sub(1) - 1 != 1
ArcDrop_TestsNewCount(t, k) ==
  /\ ~aborted /\ engine = "Arc" /\ pc[t] = "idle" /\ Owns(t, k)
  /\ Take(t, k)
  /\ strong' = WrapSub(strong)
  /\ pc' = [pc EXCEPT ![t] = IF strong # 2 THEN "idle" ELSE "drop_slow"]
  /\ ev' = Event("drop", strong = 2, NoVal)
  /\ UNCHANGED <<engine, data, leaked, dtorRuns, movedOut, freed, aborted>>

\* Drop for Arc, up to the early return: fetch_sub(1, Release) != 1.
\* k = "unique": the Arc inside a UniqueArc that is dropped.
ArcDrop(t, k) ==
  /\ ~aborted /\ engine = "Arc" /\ pc[t] = "idle" /\ Owns(t, k)
  /\ Take(t, k)
  /\ strong' = WrapSub(strong)
  /\ pc' = [pc EXCEPT ![t] = IF strong # 1 THEN "idle" ELSE "drop_slow"]
  /\ ev' = Event("drop", strong = 1, NoVal)
  /\ UNCHANGED <<engine, data, leaked, dtorRuns, movedOut, freed, aborted>>

\* Drop for Arc, after the fence: drop_slow runs ptr::drop_in_place on the
\* payload and returns; nothing deallocates the ArcInner block
ArcDropSlow(t) ==
  /\ ~aborted /\ engine = "Arc" /\ pc[t] = "drop_slow"
  /\ dtorRuns' = Bump(dtorRuns)
  /\ pc' = [pc EXCEPT ![t] = "idle"]
  /\ ev' = Event("drop_slow", TRUE, NoVal)
  /\ UNCHANGED <<engine, strong, data, held, uniq, leaked, movedOut, freed, aborted>>

\* a try_unwrap that decrements and then tests, fetch_sub(1) == 1, in place
\* of the compare_exchange: a failed call has written the count
ArcTryUnwrap_FetchSub(t) ==
  /\ ~aborted /\ engine = "Arc" /\ pc[t] = "idle" /\ held[t] > 0
  /\ strong' = WrapSub(strong)
  /\ IF strong = 1
     THEN /\ held' = [held EXCEPT ![t] = @ - 1]
          /\ pc' = [pc EXCEPT ![t] = "unwrap_read"]
          /\ ev' = Event("try_unwrap", TRUE, NoVal)
     ELSE /\ ev' = Event("try_unwrap", FALSE, NoVal)
          /\ UNCHANGED <<held, pc>>
  /\ UNCHANGED <<engine, data, uniq, leaked, dtorRuns, movedOut, freed, aborted>>

\* a try_unwrap that takes the count with swap(0, Relaxed) and tests what it
\* took: a failed call has written the count
ArcTryUnwrap_Swap(t) ==
  /\ ~aborted /\ engine = "Arc" /\ pc[t] = "idle" /\ held[t] > 0
  /\ strong' = 0
  /\ IF strong = 1
     THEN /\ held' = [held EXCEPT ![t] = @ - 1]
          /\ pc' = [pc EXCEPT ![t] = "unwrap_read"]
          /\ ev' = Event("try_unwrap", TRUE, NoVal)
     ELSE /\ ev' = Event("try_unwrap", FALSE, NoVal)
          /\ UNCHANGED <<held, pc>>
  /\ UNCHANGED <<engine, data, uniq, leaked, dtorRuns, movedOut, freed, aborted>>

\* Arc::try_unwrap, the compare_exchange(1, 0, Relaxed, Relaxed)
ArcTryUnwrap(t) ==
  /\ ~aborted /\ engine = "Arc" /\ pc[t] = "idle" /\ held[t] > 0
  /\ IF strong = 1
     THEN /\ strong' = 0
          /\ held' = [held EXCEPT ![t] = @ - 1]
          /\ pc' = [pc EXCEPT ![t] = "unwrap_read"]
          /\ ev' = Event("try_unwrap", TRUE, NoVal)
     ELSE /\ ev' = Event("try_unwrap", FALSE, NoVal)
          /\ UNCHANGED <<strong, held, pc>>
  /\ UNCHANGED <<engine, data, uniq, leaked, dtorRuns, movedOut, freed, aborted>>

\* Arc::try_unwrap after the fence: ptr::read(data); mem::forget(this); Ok(elem)
ArcTryUnwrapRead(t) ==
  /\ ~aborted /\ engine = "Arc" /\ pc[t] = "unwrap_read"
  /\ movedOut' = Bump(movedOut)
  /\ pc' = [pc EXCEPT ![t] = "idle"]
  /\ ev' = Event("try_unwrap_ret", TRUE, data)
  /\ UNCHANGED <<engine, strong, data, held, uniq, leaked, dtorRuns, freed, aborted>>

\* UniqueArc::try_unwrap: no check of the count; ptr::read; mem::forget; Ok
UniqueArcTryUnwrap(t) ==
  /\ ~aborted /\ engine = "Arc" /\ pc[t] = "idle" /\ uniq[t] > 0
  /\ uniq' = [uniq EXCEPT ![t] = @ - 1]
  /\ movedOut' = Bump(movedOut)
  /\ ev' = Event("unique_try_unwrap", TRUE, data)
  /\ UNCHANGED <<engine, strong, data, held, leaked, pc, dtorRuns, freed, aborted>>

\* a can_make_mut that accepts every count but 0
ArcCanMakeMut_NonZero == ArcRefCount >= 1

\* IntoMut for Arc::can_make_mut
ArcCanMakeMut == ArcRefCount = 1

\* NonZeroUsize::new_unchecked(n): for n = 0 the behaviour is undefined; a
\* build either hands the 0 on or stops in the unsafe-precondition check (-1)
NonZeroNewUnchecked(n) == IF n # 0 THEN {n} ELSE {0, -1}

\* ReferenceCounted for Arc::reference_count
ArcReferenceCount == NonZeroNewUnchecked(strong)

\* a conversion that counts the handle it returns as a new one
UniqueArcInto_Counting(t) ==
  /\ ~aborted /\ engine = "Arc" /\ pc[t] = "idle" /\ uniq[t] > 0
  /\ strong' = WrapAdd(strong)
  /\ uniq' = [uniq EXCEPT ![t] = @ - 1]
  /\ held' = [held EXCEPT ![t] = @ + 1]
  /\ ev' = Event("into_shared", TRUE, NoVal)
  /\ UNCHANGED <<engine, data, leaked, pc, dtorRuns, movedOut, freed, aborted>>

\* Into<Arc<T>> for UniqueArc: self.0
UniqueArcInto(t) ==
  /\ ~aborted /\ engine = "Arc" /\ pc[t] = "idle" /\ uniq[t] > 0
  /\ uniq' = [uniq EXCEPT ![t] = @ - 1]
  /\ held' = [held EXCEPT ![t] = @ + 1]
  /\ ev' = Event("into_shared", TRUE, NoVal)
  /\ UNCHANGED <<engine, strong, data, leaked, pc, dtorRuns, movedOut, freed, aborted>>

\* the caller's side of the unsafe functions: can_make_mut is true, and no
\* other thread owns or is operating on a handle of the allocation
ArcMayMakeMut(t) ==
  /\ ArcCanMakeMut
  /\ \A u \in Threads \ {t} : held[u] = 0 /\ uniq[u] = 0 /\ pc[u] = "idle"

\* IntoMut for Arc::into_mut_unchecked: UniqueArc(this)
ArcIntoMutUnchecked(t) ==
  /\ ~aborted /\ engine = "Arc" /\ pc[t] = "idle" /\ held[t] > 0
  /\ ArcMayMakeMut(t)
  /\ held' = [held EXCEPT ![t] = @ - 1]
  /\ uniq' = [uniq EXCEPT ![t] = @ + 1]
  /\ ev' = Event("into_mut_unchecked", TRUE, NoVal)
  /\ UNCHANGED <<engine, strong, data, leaked, pc, dtorRuns, movedOut, freed, aborted>>

\* IntoMut for Arc::get_mut_unchecked, and a write through the &mut T
ArcGetMutUnchecked(t, v) ==
  /\ ~aborted /\ engine = "Arc" /\ pc[t] = "idle" /\ held[t] > 0
  /\ ArcMayMakeMut(t)
  /\ data' = v
  /\ ev' = Event("get_mut_unchecked", TRUE, v)
  /\ UNCHANGED <<engine, strong, held, uniq, leaked, pc, dtorRuns, movedOut, freed, aborted>>

\* DerefMut for UniqueArc, and a write through the &mut T
UniqueArcDerefMut(t, v) ==
  /\ ~aborted /\ engine = "Arc" /\ pc[t] = "idle" /\ uniq[t] > 0
  /\ data' = v
  /\ ev' = Event("deref_mut", TRUE, v)
  /\ UNCHANGED <<engine, strong, held, uniq, leaked, pc, dtorRuns, movedOut, freed, aborted>>

\* IntoMut for Arc::can_make_mut called on a handle
ArcCanMakeMutCall(t) ==
  /\ ~aborted /\ engine = "Arc" /\ pc[t] = "idle" /\ held[t] > 0
  /\ ev' = Event("can_make_mut", ArcCanMakeMut, NoVal)
  /\ UNCHANGED <<engine, strong, data, held, uniq, leaked, pc, dtorRuns, movedOut,
                 freed, aborted>>

\* ReferenceCounted for Arc::reference_count called on a handle
ArcReferenceCountCall(t) ==
  /\ ~aborted /\ engine = "Arc" /\ pc[t] = "idle" /\ held[t] > 0
  /\ \E r \in ArcReferenceCount :
       /\ aborted' = (r = -1)
       /\ ev' = Event("reference_count", r # -1, r)
  /\ UNCHANGED <<engine, strong, data, held, uniq, leaked, pc, dtorRuns, movedOut, freed>>

\* Deref for Arc / Deref for UniqueArc: a read of the payload through a handle
ArcDeref(t, k) ==
  /\ ~aborted /\ engine = "Arc" /\ pc[t] = "idle" /\ Owns(t, k)
  /\ ev' = Event("deref", TRUE, data)
  /\ UNCHANGED <<engine, strong, data, held, uniq, leaked, pc, dtorRuns, movedOut,
                 freed, aborted>>

\* Clone for Arc called by thread t through a shared borrow (&Arc<T>) of a
\* handle that thread u owns: Arc<T> is Sync
ArcCloneBorrowed(t, u) ==
  /\ ~aborted /\ engine = "Arc" /\ pc[t] = "idle" /\ t # u /\ held[u] > 0
  /\ strong' = WrapAdd(strong)
  /\ \/ /\ strong > MAX_REFCOUNT
        /\ \E o \in PanicOutcomes : aborted' = (o = "abort")
        /\ ev' = Event("clone", FALSE, NoVal)
        /\ UNCHANGED held
     \/ /\ ~(strong > MAX_REFCOUNT)
        /\ Live < MaxLive
        /\ held' = [held EXCEPT ![t] = @ + 1]
        /\ ev' = Event("clone", TRUE, NoVal)
        /\ UNCHANGED aborted
  /\ UNCHANGED <<engine, data, uniq, leaked, pc, dtorRuns, movedOut, freed>>

\* a can_make_mut that is true for every count but 0
ArcCheckMut_NonZero(t) ==
  /\ ~aborted /\ engine = "Arc" /\ pc[t] = "idle" /\ held[t] > 0
  /\ pc' = [pc EXCEPT ![t] = IF ArcRefCount # 0 THEN "checked" ELSE "idle"]
  /\ ev' = Event("can_make_mut", ArcRefCount # 0, NoVal)
  /\ UNCHANGED <<engine, strong, data, held, uniq, leaked, dtorRuns, movedOut, freed,
                 aborted>>

\* IntoMut for Arc::can_make_mut called by a caller that goes on to
\* get_mut_unchecked when the answer is true ("Safety: Calling this is safe if
\* and only if can_make_mut returns true")
ArcCheckMut(t) ==
  /\ ~aborted /\ engine = "Arc" /\ pc[t] = "idle" /\ held[t] > 0
  /\ pc' = [pc EXCEPT ![t] = IF ArcCanMakeMut THEN "checked" ELSE "idle"]
  /\ ev' = Event("can_make_mut", ArcCanMakeMut, NoVal)
  /\ UNCHANGED <<engine, strong, data, held, uniq, leaked, dtorRuns, movedOut, freed,
                 aborted>>

\* IntoMut for Arc::get_mut_unchecked(&handle) called on the strength of the
\* answer true, and a write through the &mut T
ArcCheckedGetMut(t, v) ==
  /\ ~aborted /\ engine = "Arc" /\ pc[t] = "checked" /\ held[t] > 0
  /\ data' = v
  /\ pc' = [pc EXCEPT ![t] = "idle"]
  /\ ev' = Event("get_mut_unchecked", TRUE, v)
  /\ UNCHANGED <<engine, strong, held, uniq, leaked, dtorRuns, movedOut, freed, aborted>>

\* ---------------------------------------------------------------- Rc
\* Rc::ref_count: self.inner().strong.get()
RcRefCount == strong

\* an inc_strong that stores the count it read: set(strong)
RcClone_NoIncrement(t) ==
  /\ ~aborted /\ engine = "Rc" /\ pc[t] = "idle" /\ held[t] > 0
  /\ \/ /\ (RcRefCount = 0 \/ RcRefCount = USIZE_MAX)
        /\ \E o \in PanicOutcomes : aborted' = (o = "abort")
        /\ ev' = Event("clone", FALSE, NoVal)
        /\ UNCHANGED <<strong, held>>
     \/ /\ ~(RcRefCount = 0 \/ RcRefCount = USIZE_MAX)
        /\ Live < MaxLive
        /\ strong' = RcRefCount
        /\ held' = [held EXCEPT ![t] = @ + 1]
        /\ ev' = Event("clone", TRUE, NoVal)
        /\ UNCHANGED aborted
  /\ UNCHANGED <<engine, data, uniq, leaked, pc, dtorRuns, movedOut, freed>>

\* Clone for Rc: inc_strong (the guard first, then set(strong + 1)), from_inner
RcClone(t) ==
  /\ ~aborted /\ engine = "Rc" /\ pc[t] = "idle" /\ held[t] > 0
  /\ \/ /\ (RcRefCount = 0 \/ RcRefCount = USIZE_MAX)
        /\ \E o \in PanicOutcomes : aborted' = (o = "abort")
        /\ ev' = Event("clone", FALSE, NoVal)
        /\ UNCHANGED <<strong, held>>
     \/ /\ ~(RcRefCount = 0 \/ RcRefCount = USIZE_MAX)
        /\ Live < MaxLive
        /\ strong' = RcRefCount + 1
        /\ held' = [held EXCEPT ![t] = @ + 1]
        /\ ev' = Event("clone", TRUE, NoVal)
        /\ UNCHANGED aborted
  /\ UNCHANGED <<engine, data, uniq, leaked, pc, dtorRuns, movedOut, freed>>

\* a drop that tests the count before dec_strong: if ref_count() == 0
RcDrop_TestsOldCount(t, k) ==
  /\ ~aborted /\ engine = "Rc" /\ pc[t] = "idle" /\ Owns(t, k)
  /\ Take(t, k)
  /\ strong' = WrapSub(RcRefCount)
  /\ IF strong = 0
     THEN dtorRuns' = Bump(dtorRuns) /\ freed' = Bump(freed)
     ELSE UNCHANGED <<dtorRuns, freed>>
  /\ ev' = Event("drop", strong = 0, NoVal)
  /\ UNCHANGED <<engine, data, leaked, pc, movedOut, aborted>>

\* Drop for Rc: dec_strong; if ref_count() == 0 { drop_in_place; dealloc }.
\* k = "unique": the Rc inside a UniqueRc that is dropped.  ref_count() - 1 is
\* never computed at 0: no Rc handle exists at count 0.
RcDrop(t, k) ==
  /\ ~aborted /\ engine = "Rc" /\ pc[t] = "idle" /\ Owns(t, k)
  /\ Take(t, k)
  /\ strong' = WrapSub(RcRefCount)
  /\ IF strong' = 0
     THEN dtorRuns' = Bump(dtorRuns) /\ freed' = Bump(freed)
     ELSE UNCHANGED <<dtorRuns, freed>>
  /\ ev' = Event("drop", strong' = 0, NoVal)
  /\ UNCHANGED <<engine, data, leaked, pc, movedOut, aborted>>

\* Rc::try_unwrap: ref_count == 1 ? { ptr::read; dealloc; mem::forget; Ok } : Err(this)
RcTryUnwrap(t) ==
  /\ ~aborted /\ engine = "Rc" /\ pc[t] = "idle" /\ held[t] > 0
  /\ IF RcRefCount = 1
     THEN /\ movedOut' = Bump(movedOut)
          /\ freed' = Bump(freed)
          /\ held' = [held EXCEPT ![t] = @ - 1]
          /\ ev' = Event("try_unwrap", TRUE, data)
     ELSE /\ ev' = Event("try_unwrap", FALSE, NoVal)
          /\ UNCHANGED <<movedOut, freed, held>>
  /\ UNCHANGED <<engine, strong, data, uniq, leaked, pc, dtorRuns, aborted>>

\* UniqueRc::try_unwrap: no check of the count; ptr::read; dealloc; mem::forget; Ok
UniqueRcTryUnwrap(t) ==
  /\ ~aborted /\ engine = "Rc" /\ pc[t] = "idle" /\ uniq[t] > 0
  /\ uniq' = [uniq EXCEPT ![t] = @ - 1]
  /\ movedOut' = Bump(movedOut)
  /\ freed' = Bump(freed)
  /\ ev' = Event("unique_try_unwrap", TRUE, data)
  /\ UNCHANGED <<engine, strong, data, held, leaked, pc, dtorRuns, aborted>>

\* ---------------------------------------------------------------- Rc, by steps
\* Drop for Rc and the two try_unwrap of rc.rs, one action per access to the
\* block: the count, the payload, the deallocation.

\* a drop that deallocates the block before it destroys the payload
RcDropDecStrong_FreesFirst(t, k) ==
  /\ ~aborted /\ engine = "Rc" /\ pc[t] = "idle" /\ Owns(t, k)
  /\ Take(t, k)
  /\ strong' = WrapSub(RcRefCount)
  /\ pc' = [pc EXCEPT ![t] = IF strong' = 0 THEN "rc_drop_in_place" ELSE "idle"]
  /\ freed' = IF strong' = 0 THEN Bump(freed) ELSE freed
  /\ ev' = Event("drop", strong' = 0, NoVal)
  /\ UNCHANGED <<engine, data, leaked, dtorRuns, movedOut, aborted>>

\* Drop for Rc::drop: self.dec_strong(); if self.ref_count() == 0
RcDropDecStrong(t, k) ==
  /\ ~aborted /\ engine = "Rc" /\ pc[t] = "idle" /\ Owns(t, k)
  /\ Take(t, k)
  /\ strong' = WrapSub(RcRefCount)
  /\ pc' = [pc EXCEPT ![t] = IF strong' = 0 THEN "rc_drop_in_place" ELSE "idle"]
  /\ ev' = Event("drop", strong' = 0, NoVal)
  /\ UNCHANGED <<engine, data, leaked, dtorRuns, movedOut, freed, aborted>>

\* Drop for Rc::drop: ptr::drop_in_place(self.ptr.as_mut())
RcDropInPlace(t) ==
  /\ ~aborted /\ engine = "Rc" /\ pc[t] = "rc_drop_in_place"
  /\ dtorRuns' = Bump(dtorRuns)
  /\ pc' = [pc EXCEPT ![t] = "rc_dealloc"]
  /\ ev' = Event("drop_in_place", TRUE, NoVal)
  /\ UNCHANGED <<engine, strong, data, held, uniq, leaked, movedOut, freed, aborted>>

\* Drop for Rc::drop: dealloc(self.ptr().cast(), Layout::for_value(..)), the
\* last statement of drop; also the dealloc of the two try_unwrap, after which
\* they mem::forget(this) and return Ok
RcDealloc(t) ==
  /\ ~aborted /\ engine = "Rc" /\ pc[t] = "rc_dealloc"
  /\ freed' = Bump(freed)
  /\ pc' = [pc EXCEPT ![t] = "idle"]
  /\ ev' = Event("dealloc", TRUE, NoVal)
  /\ UNCHANGED <<engine, strong, data, held, uniq, leaked, dtorRuns, movedOut, aborted>>

\* Rc::try_unwrap: if Rc::ref_count(&this) == 1 { ptr::read(&*this) .. } else { Err(this) }
RcTryUnwrapRead(t) ==
  /\ ~aborted /\ engine = "Rc" /\ pc[t] = "idle" /\ held[t] > 0
  /\ IF RcRefCount = 1
     THEN /\ movedOut' = Bump(movedOut)
          /\ held' = [held EXCEPT ![t] = @ - 1]
          /\ pc' = [pc EXCEPT ![t] = "rc_dealloc"]
          /\ ev' = Event("try_unwrap", TRUE, data)
     ELSE /\ ev' = Event("try_unwrap", FALSE, NoVal)
          /\ UNCHANGED <<movedOut, held, pc>>
  /\ UNCHANGED <<engine, strong, data, uniq, leaked, dtorRuns, freed, aborted>>

\* UniqueRc::try_unwrap: let this = this.0; ptr::read(&this.ptr.as_ref().data)
UniqueRcTryUnwrapRead(t) ==
  /\ ~aborted /\ engine = "Rc" /\ pc[t] = "idle" /\ uniq[t] > 0
  /\ uniq' = [uniq EXCEPT ![t] = @ - 1]
  /\ movedOut' = Bump(movedOut)
  /\ pc' = [pc EXCEPT ![t] = "rc_dealloc"]
  /\ ev' = Event("unique_try_unwrap", TRUE, data)
  /\ UNCHANGED <<engine, strong, data, held, leaked, dtorRuns, freed, aborted>>

\* IntoMut for Rc::can_make_mut
RcCanMakeMut == RcRefCount = 1

\* ReferenceCounted for Rc::reference_count
RcReferenceCount == NonZeroNewUnchecked(RcRefCount)

\* Into<Rc<T>> for UniqueRc: self.0
UniqueRcInto(t) ==
  /\ ~aborted /\ engine = "Rc" /\ pc[t] = "idle" /\ uniq[t] > 0
  /\ uniq' = [uniq EXCEPT ![t] = @ - 1]
  /\ held' = [held EXCEPT ![t] = @ + 1]
  /\ ev' = Event("into_shared", TRUE, NoVal)
  /\ UNCHANGED <<engine, strong, data, leaked, pc, dtorRuns, movedOut, freed, aborted>>

\* the caller's side of the unsafe functions: can_make_mut is true, and no
\* other thread owns a handle of the allocation
RcMayMakeMut(t) ==
  /\ RcCanMakeMut
  /\ \A u \in Threads \ {t} : held[u] = 0 /\ uniq[u] = 0

\* IntoMut for Rc::into_mut_unchecked: UniqueRc(this)
RcIntoMutUnchecked(t) ==
  /\ ~aborted /\ engine = "Rc" /\ pc[t] = "idle" /\ held[t] > 0
  /\ RcMayMakeMut(t)
  /\ held' = [held EXCEPT ![t] = @ - 1]
  /\ uniq' = [uniq EXCEPT ![t] = @ + 1]
  /\ ev' = Event("into_mut_unchecked", TRUE, NoVal)
  /\ UNCHANGED <<engine, strong, data, leaked, pc, dtorRuns, movedOut, freed, aborted>>

\* IntoMut for Rc::get_mut_unchecked, and a write through the &mut T
RcGetMutUnchecked(t, v) ==
  /\ ~aborted /\ engine = "Rc" /\ pc[t] = "idle" /\ held[t] > 0
  /\ RcMayMakeMut(t)
  /\ data' = v
  /\ ev' = Event("get_mut_unchecked", TRUE, v)
  /\ UNCHANGED <<engine, strong, held, uniq, leaked, pc, dtorRuns, movedOut, freed, aborted>>

\* DerefMut for UniqueRc, and a write through the &mut T
UniqueRcDerefMut(t, v) ==
  /\ ~aborted /\ engine = "Rc" /\ pc[t] = "idle" /\ uniq[t] > 0
  /\ data' = v
  /\ ev' = Event("deref_mut", TRUE, v)
  /\ UNCHANGED <<engine, strong, held, uniq, leaked, pc, dtorRuns, movedOut, freed, aborted>>

\* IntoMut for Rc::can_make_mut called on a handle
RcCanMakeMutCall(t) ==
  /\ ~aborted /\ engine = "Rc" /\ pc[t] = "idle" /\ held[t] > 0
  /\ ev' = Event("can_make_mut", RcCanMakeMut, NoVal)
  /\ UNCHANGED <<engine, strong, data, held, uniq, leaked, pc, dtorRuns, movedOut,
                 freed, aborted>>

\* ReferenceCounted for Rc::reference_count called on a handle
RcReferenceCountCall(t) ==
  /\ ~aborted /\ engine = "Rc" /\ pc[t] = "idle" /\ held[t] > 0
  /\ \E r \in RcReferenceCount :
       /\ aborted' = (r = -1)
       /\ ev' = Event("reference_count", r # -1, r)
  /\ UNCHANGED <<engine, strong, data, held, uniq, leaked, pc, dtorRuns, movedOut, freed>>

\* Deref for Rc / Deref for UniqueRc: a read of the payload through a handle
RcDeref(t, k) ==
  /\ ~aborted /\ engine = "Rc" /\ pc[t] = "idle" /\ Owns(t, k)
  /\ ev' = Event("deref", TRUE, data)
  /\ UNCHANGED <<engine, strong, data, held, uniq, leaked, pc, dtorRuns, movedOut,
                 freed, aborted>>

\* ---------------------------------------------------------------- callers
\* a handle is moved to another thread: Send for Arc, Send for UniqueArc
ArcSend(t, u, k) ==
  /\ ~aborted /\ engine = "Arc" /\ pc[t] = "idle" /\ t # u /\ Owns(t, k)
  /\ IF k = "shared"
     THEN held' = [held EXCEPT ![t] = @ - 1, ![u] = @ + 1] /\ UNCHANGED uniq
     ELSE uniq' = [uniq EXCEPT ![t] = @ - 1, ![u] = @ + 1] /\ UNCHANGED held
  /\ ev' = Event("send", TRUE, NoVal)
  /\ UNCHANGED <<engine, strong, data, leaked, pc, dtorRuns, movedOut, freed, aborted>>

\* a wrapper is moved to another thread: Send for UniqueRc (Rc itself is not Send)
UniqueRcSend(t, u) ==
  /\ ~aborted /\ engine = "Rc" /\ pc[t] = "idle" /\ t # u /\ uniq[t] > 0
  /\ uniq' = [uniq EXCEPT ![t] = @ - 1, ![u] = @ + 1]
  /\ ev' = Event("send", TRUE, NoVal)
  /\ UNCHANGED <<engine, strong, data, held, leaked, pc, dtorRuns, movedOut, freed, aborted>>

\* the caller leaks a handle (mem::forget): it is never dropped
Forget(t) ==
  /\ ~aborted /\ engine # "none" /\ pc[t] = "idle" /\ held[t] > 0
  /\ leaked < MaxLeak
  /\ held' = [held EXCEPT ![t] = @ - 1]
  /\ leaked' = leaked + 1
  /\ ev' = Event("forget", TRUE, NoVal)
  /\ UNCHANGED <<engine, strong, data, uniq, pc, dtorRuns, movedOut, freed, aborted>>

\* the operations leave the bookkeeping of the scenarios alone
Frame == UNCHANGED <<incs, hb, twin>>

Next ==
  \/ \E t \in Threads, v \in Payloads : ArcNew(t, v) /\ Frame
  \/ \E t \in Threads, v \in Payloads : UniqueArcNew(t, v) /\ Frame
  \/ \E t \in Threads, v \in Payloads : RcNew(t, v) /\ Frame
  \/ \E t \in Threads, v \in Payloads : UniqueRcNew(t, v) /\ Frame
  \/ \E t \in Threads : ArcClone(t) /\ Frame
  \/ \E t \in Threads, k \in Kinds : ArcDrop(t, k) /\ Frame
  \/ \E t \in Threads : ArcDropSlow(t) /\ Frame
  \/ \E t \in Threads : ArcTryUnwrap(t) /\ Frame
  \/ \E t \in Threads : ArcTryUnwrapRead(t) /\ Frame
  \/ \E t \in Threads : UniqueArcTryUnwrap(t) /\ Frame
  \/ \E t \in Threads : UniqueArcInto(t) /\ Frame
  \/ \E t \in Threads : ArcIntoMutUnchecked(t) /\ Frame
  \/ \E t \in Threads, v \in Payloads : ArcGetMutUnchecked(t, v) /\ Frame
  \/ \E t \in Threads, v \in Payloads : UniqueArcDerefMut(t, v) /\ Frame
  \/ \E t \in Threads : ArcCanMakeMutCall(t) /\ Frame
  \/ \E t \in Threads : ArcReferenceCountCall(t) /\ Frame
  \/ \E t \in Threads, k \in Kinds : ArcDeref(t, k) /\ Frame
  \/ \E t \in Threads : RcClone(t) /\ Frame
  \/ \E t \in Threads, k \in Kinds : RcDrop(t, k) /\ Frame
  \/ \E t \in Threads : RcTryUnwrap(t) /\ Frame
  \/ \E t \in Threads : UniqueRcTryUnwrap(t) /\ Frame
  \/ \E t \in Threads : UniqueRcInto(t) /\ Frame
  \/ \E t \in Threads : RcIntoMutUnchecked(t) /\ Frame
  \/ \E t \in Threads, v \in Payloads : RcGetMutUnchecked(t, v) /\ Frame
  \/ \E t \in Threads, v \in Payloads : UniqueRcDerefMut(t, v) /\ Frame
  \/ \E t \in Threads : RcCanMakeMutCall(t) /\ Frame
  \/ \E t \in Threads : RcReferenceCountCall(t) /\ Frame
  \/ \E t \in Threads, k \in Kinds : RcDeref(t, k) /\ Frame
  \/ \E t, u \in Threads, k \in Kinds : ArcSend(t, u, k) /\ Frame
  \/ \E t, u \in Threads : UniqueRcSend(t, u) /\ Frame
  \/ \E t \in Threads : Forget(t) /\ Frame

Spec == Init /\ [][Next]_vars

\* new, clone, drop and try_unwrap on shared handles only, the handles being
\* owned by any thread and dropped or leaked
NextLifecycle ==
  \/ \E t \in Threads, v \in Payloads : ArcNew(t, v) /\ Frame
  \/ \E t \in Threads, v \in Payloads : RcNew(t, v) /\ Frame
  \/ \E t \in Threads : ArcClone(t) /\ Frame
  \/ \E t \in Threads : ArcDrop(t, "shared") /\ Frame
  \/ \E t \in Threads : ArcDropSlow(t) /\ Frame
  \/ \E t \in Threads : ArcTryUnwrap(t) /\ Frame
  \/ \E t \in Threads : ArcTryUnwrapRead(t) /\ Frame
  \/ \E t \in Threads : RcClone(t) /\ Frame
  \/ \E t \in Threads : RcDrop(t, "shared") /\ Frame
  \/ \E t \in Threads : RcTryUnwrap(t) /\ Frame
  \/ \E t, u \in Threads : ArcSend(t, u, "shared") /\ Frame
  \/ \E t \in Threads : Forget(t) /\ Frame

SpecLifecycle == Init /\ [][NextLifecycle]_vars

\* ---------------------------------------------------------------- ordering
\* a payload access by thread t (Deref, or a write through &mut T): it is
\* ordered before nothing but t's own later steps
HbAccess(h, t) ==
  [h EXCEPT !.pend = [u \in Threads |-> IF u = t THEN h.pend[u] ELSE h.pend[u] \cup {t}],
            !.cpend = @ \cup {t},
            !.acc = @ \cup {t}]

\* a read of the counter by an operation that goes on to acquire!()
HbRead(h, t) == [h EXCEPT !.got[t] = h.cpend]

\* a decrement that releases nothing: fetch_sub(1, Relaxed)
HbRelease_Relaxed(h, t) == h

\* fetch_sub(1, Release): what is ordered before t's present is ordered
\* before the head of the release sequence, which every later read-modify-
\* write of the counter continues
HbRelease(h, t) == [h EXCEPT !.cpend = @ \cap h.pend[t]]

\* acquire!(): atomic::fence(Acquire) after a read of the counter
HbFence(h, t) == [h EXCEPT !.pend[t] = @ \cap h.got[t], !.got[t] = {}]

\* strong.load(SeqCst)
HbLoad(h, t) == [h EXCEPT !.pend[t] = @ \cap h.cpend]

\* a handle moved from thread t to thread u: the hand-over orders what t did
\* before what u does
HbSend(h, t, u) == [h EXCEPT !.pend[u] = @ \cap h.pend[t]]

\* ptr::drop_in_place / ptr::read of the payload by thread t
HbExclusive(h, t) == [h EXCEPT !.race = @ \/ h.pend[t] # {}]

\* the operations of Arc on shared handles, with the ordering they establish
OrdNew(t, v) == ArcNew(t, v) /\ UNCHANGED <<incs, hb, twin>>

OrdClone(t) == ArcClone(t) /\ UNCHANGED <<incs, hb, twin>>

OrdCloneBorrowed(t, u) == ArcCloneBorrowed(t, u) /\ UNCHANGED <<incs, hb, twin>>

OrdDrop(t) ==
  /\ ArcDrop(t, "shared")
  /\ hb' = IF strong = 1 THEN HbRelease(HbRead(hb, t), t) ELSE HbRelease(hb, t)
  /\ UNCHANGED <<incs, twin>>

OrdDropSlow(t) ==
  /\ ArcDropSlow(t)
  /\ hb' = HbExclusive(HbFence(hb, t), t)
  /\ UNCHANGED <<incs, twin>>

OrdTryUnwrap(t) ==
  /\ ArcTryUnwrap(t)
  /\ hb' = IF strong = 1 THEN HbRead(hb, t) ELSE hb
  /\ UNCHANGED <<incs, twin>>

OrdTryUnwrapRead(t) ==
  /\ ArcTryUnwrapRead(t)
  /\ hb' = HbExclusive(HbFence(hb, t), t)
  /\ UNCHANGED <<incs, twin>>

OrdDeref(t) ==
  /\ ArcDeref(t, "shared")
  /\ hb' = HbAccess(hb, t)
  /\ UNCHANGED <<incs, twin>>

OrdCheckMut(t) ==
  /\ ArcCheckMut(t)
  /\ hb' = HbLoad(hb, t)
  /\ UNCHANGED <<incs, twin>>

OrdCheckedGetMut(t, v) ==
  /\ ArcCheckedGetMut(t, v)
  /\ hb' = HbAccess(hb, t)
  /\ UNCHANGED <<incs, twin>>

OrdSend(t, u) ==
  /\ ArcSend(t, u, "shared")
  /\ hb' = HbSend(hb, t, u)
  /\ UNCHANGED <<incs, twin>>

\* threads that share one Arc allocation: every handle is dropped or
\* unwrapped, none is leaked
NextThreads ==
  \/ \E t \in Threads, v \in Payloads : OrdNew(t, v)
  \/ \E t \in Threads : OrdClone(t)
  \/ \E t, u \in Threads : OrdCloneBorrowed(t, u)
  \/ \E t \in Threads : OrdDrop(t)
  \/ \E t \in Threads : OrdDropSlow(t)
  \/ \E t \in Threads : OrdTryUnwrap(t)
  \/ \E t \in Threads : OrdTryUnwrapRead(t)
  \/ \E t \in Threads : OrdDeref(t)
  \/ \E t \in Threads : OrdCheckMut(t)
  \/ \E t \in Threads, v \in Payloads : OrdCheckedGetMut(t, v)
  \/ \E t, u \in Threads : OrdSend(t, u)

SpecThreads == Init /\ [][NextThreads]_vars

\* ---------------------------------------------------------------- stress
\* The stress scenario: the main thread makes an Arc of a counter behind a
\* lock, every other thread gets a clone of it (made by the main thread and
\* moved into the thread, or made by the thread through a shared borrow),
\* increments the counter StressIncs times under the lock and drops its
\* handle; the main thread drops the original once every thread has its clone.
Main == 1
Workers == Threads \ {Main}

NotStarted(w) == held[w] = 0 /\ incs[w] = 0 /\ pc[w] = "idle"

StressNew == OrdNew(Main, 0)

StressClone ==
  /\ held[Main] = 1 /\ \E w \in Workers : NotStarted(w)
  /\ OrdClone(Main)

StressSpawn(w) ==
  /\ w \in Workers /\ NotStarted(w) /\ held[Main] = 2
  /\ OrdSend(Main, w)

StressCloneBorrowed(w) ==
  /\ w \in Workers /\ NotStarted(w) /\ held[Main] = 1
  /\ OrdCloneBorrowed(w, Main)

\* one increment of the counter through the handle: lock, add 1, unlock
Increment(w) ==
  /\ ~aborted /\ engine = "Arc" /\ pc[w] = "idle" /\ held[w] > 0
  /\ w \in Workers /\ incs[w] < StressIncs
  /\ data' = data + 1
  /\ incs' = [incs EXCEPT ![w] = @ + 1]
  /\ hb' = HbAccess(hb, w)
  /\ ev' = Event("increment", TRUE, data + 1)
  /\ UNCHANGED <<engine, strong, held, uniq, leaked, pc, dtorRuns, movedOut, freed,
                 aborted, twin>>

\* a read of the counter through a handle, under the lock
StressRead(t) == OrdDeref(t)

StressDrop(w) ==
  /\ w \in Workers /\ incs[w] = StressIncs
  /\ OrdDrop(w)

StressDropOriginal ==
  /\ held[Main] = 1 /\ \A w \in Workers : ~NotStarted(w)
  /\ OrdDrop(Main)

StressDropSlow(t) == OrdDropSlow(t)

NextStress ==
  \/ StressNew
  \/ StressClone
  \/ \E w \in Threads : StressSpawn(w)
  \/ \E w \in Threads : StressCloneBorrowed(w)
  \/ \E w \in Threads : Increment(w)
  \/ \E t \in Threads : StressRead(t)
  \/ \E w \in Threads : StressDrop(w)
  \/ StressDropOriginal
  \/ \E t \in Threads : StressDropSlow(t)

SpecStress == Init /\ [][NextStress]_vars

\* ---------------------------------------------------------------- twin
\* One single-threaded sequence of operations run on both engines: it is run
\* on one engine and what each operation returns is recorded, the state is
\* reset, and the same operations are run on the other engine.

\* the operation a step belongs to: Arc's drop and try_unwrap end in a
\* second step
TwinOp(e) == IF e.op = "drop_slow" THEN "drop"
             ELSE IF e.op = "try_unwrap_ret" THEN "try_unwrap" ELSE e.op

\* what the caller of a completed operation sees: its result (e.ok: the
\* clone returned, the try_unwrap was Ok, can_make_mut was true; e.val: the
\* count, the unwrapped value) and whether the payload's destructor ran in it
TwinObs(e, d) == [op |-> TwinOp(e), ok |-> e.ok, val |-> e.val, dtor |-> d]

TwinRecord ==
  /\ twin.phase = "first"
  /\ pc[Main] = "idle" => Len(twin.log) < MaxOps
  /\ twin' = IF pc'[Main] = "idle"
             THEN [twin EXCEPT !.log = Append(@, TwinObs(ev', dtorRuns' # dtorRuns))]
             ELSE twin

TwinReplay ==
  /\ twin.phase = "second" /\ twin.pos <= Len(twin.log)
  /\ engine' # twin.eng
  /\ TwinOp(ev') = twin.log[twin.pos].op
  /\ ev'.op = "new" => ev'.val = twin.log[twin.pos].val
  /\ twin' = IF pc'[Main] = "idle"
             THEN [twin EXCEPT !.pos = @ + 1,
                               !.diff = @ \/ TwinObs(ev', dtorRuns' # dtorRuns)
                                                # twin.log[twin.pos]]
             ELSE twin

TwinBook == (TwinRecord \/ TwinReplay) /\ UNCHANGED <<incs, hb>>

\* the recorded run is over: a fresh state for the run on the other engine
TwinRestart ==
  /\ twin.phase = "first" /\ Idle /\ twin.log # <<>>
  /\ twin' = [twin EXCEPT !.phase = "second", !.eng = engine]
  /\ engine' = "none" /\ strong' = 0 /\ data' = NoVal
  /\ held' = [t \in Threads |-> 0]
  /\ dtorRuns' = 0 /\ movedOut' = 0 /\ freed' = 0
  /\ ev' = [op |-> "init", ok |-> FALSE, old |-> 0, val |-> NoVal]
  /\ UNCHANGED <<uniq, leaked, pc, aborted, incs, hb>>

NextTwin ==
  \/ \E v \in Payloads : ArcNew(Main, v) /\ TwinBook
  \/ ArcClone(Main) /\ TwinBook
  \/ ArcDrop(Main, "shared") /\ TwinBook
  \/ ArcDropSlow(Main) /\ TwinBook
  \/ ArcTryUnwrap(Main) /\ TwinBook
  \/ ArcTryUnwrapRead(Main) /\ TwinBook
  \/ ArcReferenceCountCall(Main) /\ TwinBook
  \/ ArcCanMakeMutCall(Main) /\ TwinBook
  \/ \E v \in Payloads : RcNew(Main, v) /\ TwinBook
  \/ RcClone(Main) /\ TwinBook
  \/ RcDrop(Main, "shared") /\ TwinBook
  \/ RcTryUnwrap(Main) /\ TwinBook
  \/ RcReferenceCountCall(Main) /\ TwinBook
  \/ RcCanMakeMutCall(Main) /\ TwinBook
  \/ TwinRestart

SpecTwin == Init /\ [][NextTwin]_vars

\* ---------------------------------------------------------------- release
\* every way of the two engines to end an allocation, the Rc ones by steps
NextRelease ==
  \/ \E t \in Threads, v \in Payloads : ArcNew(t, v) /\ Frame
  \/ \E t \in Threads, v \in Payloads : UniqueArcNew(t, v) /\ Frame
  \/ \E t \in Threads, v \in Payloads : RcNew(t, v) /\ Frame
  \/ \E t \in Threads, v \in Payloads : UniqueRcNew(t, v) /\ Frame
  \/ \E t \in Threads : ArcClone(t) /\ Frame
  \/ \E t \in Threads, k \in Kinds : ArcDrop(t, k) /\ Frame
  \/ \E t \in Threads : ArcDropSlow(t) /\ Frame
  \/ \E t \in Threads : ArcTryUnwrap(t) /\ Frame
  \/ \E t \in Threads : ArcTryUnwrapRead(t) /\ Frame
  \/ \E t \in Threads : UniqueArcTryUnwrap(t) /\ Frame
  \/ \E t \in Threads : UniqueArcInto(t) /\ Frame
  \/ \E t \in Threads : ArcIntoMutUnchecked(t) /\ Frame
  \/ \E t \in Threads, k \in Kinds : ArcDeref(t, k) /\ Frame
  \/ \E t \in Threads : RcClone(t) /\ Frame
  \/ \E t \in Threads, k \in Kinds : RcDropDecStrong(t, k) /\ Frame
  \/ \E t \in Threads : RcDropInPlace(t) /\ Frame
  \/ \E t \in Threads : RcDealloc(t) /\ Frame
  \/ \E t \in Threads : RcTryUnwrapRead(t) /\ Frame
  \/ \E t \in Threads : UniqueRcTryUnwrapRead(t) /\ Frame
  \/ \E t \in Threads : UniqueRcInto(t) /\ Frame
  \/ \E t \in Threads : RcIntoMutUnchecked(t) /\ Frame
  \/ \E t \in Threads, k \in Kinds : RcDeref(t, k) /\ Frame
  \/ \E t, u \in Threads, k \in Kinds : ArcSend(t, u, k) /\ Frame
  \/ \E t, u \in Threads : UniqueRcSend(t, u) /\ Frame
  \/ \E t \in Threads : Forget(t) /\ Frame

SpecRelease == Init /\ [][NextRelease]_vars

\* ---------------------------------------------------------------- race
\* try_unwrap against drop: a thread makes an Arc and hands a second handle
\* to the main thread (a clone it sends, or a clone the main thread makes
\* through a shared borrow); the two handles are the only ones.  The main
\* thread calls try_unwrap on its handle, the other thread drops its own;
\* either may read the payload or the count before.
RaceNew(w, v) == w \in Workers /\ OrdNew(w, v)

RaceClone(w) == w \in Workers /\ Live = 1 /\ OrdClone(w)

RaceSend(w) == w \in Workers /\ held[w] = 2 /\ OrdSend(w, Main)

RaceCloneBorrowed(w) == w \in Workers /\ Live = 1 /\ OrdCloneBorrowed(Main, w)

RaceDeref(t) == OrdDeref(t)

\* ReferenceCounted for Arc::reference_count: strong.load(SeqCst)
OrdReferenceCount(t) ==
  /\ ArcReferenceCountCall(t)
  /\ hb' = HbLoad(hb, t)
  /\ UNCHANGED <<incs, twin>>

RaceReferenceCount(t) == OrdReferenceCount(t)

RaceTryUnwrap == held[Main] = 1 /\ OrdTryUnwrap(Main)

RaceTryUnwrapRead == OrdTryUnwrapRead(Main)

RaceDrop(w) == w \in Workers /\ held[w] = 1 /\ held[Main] = 1 /\ OrdDrop(w)

NextRace ==
  \/ \E w \in Threads, v \in Payloads : RaceNew(w, v)
  \/ \E w \in Threads : RaceClone(w)
  \/ \E w \in Threads : RaceSend(w)
  \/ \E w \in Threads : RaceCloneBorrowed(w)
  \/ \E t \in Threads : RaceDeref(t)
  \/ \E t \in Threads : RaceReferenceCount(t)
  \/ RaceTryUnwrap
  \/ RaceTryUnwrapRead
  \/ \E w \in Threads : RaceDrop(w)

SpecRace == Init /\ [][NextRace]_vars

TypeOK ==
  /\ engine \in Engines \cup {"none"}
  /\ strong \in 0..USIZE_MAX
  /\ data \in 0..(NumThreads * StressIncs) \cup {NoVal}
  /\ held \in [Threads -> 0..MaxLive]
  /\ uniq \in [Threads -> 0..MaxLive]
  /\ leaked \in 0..MaxLeak
  /\ pc \in [Threads -> {"idle", "drop_slow", "unwrap_read", "checked",
                        "rc_drop_in_place", "rc_dealloc"}]
  /\ dtorRuns \in 0..2 /\ movedOut \in 0..2 /\ freed \in 0..2
  /\ aborted \in BOOLEAN
  /\ incs \in [Threads -> 0..StressIncs]
  /\ hb.pend \in [Threads -> SUBSET Threads] /\ hb.got \in [Threads -> SUBSET Threads]
  /\ hb.cpend \subseteq Threads /\ hb.acc \subseteq Threads /\ hb.race \in BOOLEAN
  /\ twin.phase \in {"first", "second"} /\ twin.eng \in Engines \cup {"none"}
  /\ Len(twin.log) <= MaxOps /\ twin.pos \in 1..(MaxOps + 1) /\ twin.diff \in BOOLEAN

\* ---------------------------------------------------------------- claims
\* the payload is intact: neither destructed nor moved out
PayloadIntact == dtorRuns = 0 /\ movedOut = 0

\* a handle some thread owns: a shared handle or an exclusive wrapper
SomeHandle == \E t \in Threads : held[t] > 0 \/ uniq[t] > 0

\* C1: over every sequence of clone, drop and try_unwrap on the handles of an
\* allocation the payload destructor runs at most once, only in a drop that
\* read the count 1 before its decrement, and never for a payload that a
\* successful try_unwrap moved out.
C1_DestructorAtMostOnce ==
  /\ dtorRuns <= 1
  /\ ~(dtorRuns >= 1 /\ movedOut >= 1)
  /\ (ev.op = "drop" /\ ev.ok => ev.old = 1)

\* C2: while any handle (shared handle or exclusive wrapper) is live, the
\* payload has not been destructed or moved out and the block has not been
\* released; a drop that leaves another handle behind never destructs or frees.
C2_NoUseAfterFree ==
  SomeHandle => PayloadIntact /\ freed = 0

\* C3: in both engines the block has been released exactly once whenever the
\* operations have ended with no handle left (none owned, none leaked, no
\* operation under way), and it is never released twice.
C3_BlockReleasedOnce ==
  /\ freed <= 1
  /\ (engine # "none" /\ ~SomeHandle /\ leaked = 0 /\ Idle /\ ~aborted => freed = 1)

\* C4: whenever a thread owns a handle that it can pass to reference_count the
\* stored count is >= 1, and reference_count never returns 0.
C4_CountPositive ==
  /\ (\E t \in Threads : held[t] > 0) => strong >= 1
  /\ (ev.op = "reference_count" => ev.val >= 1)

\* C5: while the allocation is alive (payload intact, block not released) and
\* no operation is under way, the stored count is the number of handles
\* created and not yet dropped or consumed by try_unwrap (owned or leaked),
\* also after a clone that tripped the overflow guard.
C5_CountIsHandles ==
  engine # "none" /\ PayloadIntact /\ freed = 0 /\ Idle /\ ~aborted
    => strong = Live + leaked

\* a try_unwrap on a shared handle has returned Ok
UnwrapReturned ==
  \/ ev.op = "try_unwrap_ret"
  \/ engine = "Rc" /\ ev.op = "try_unwrap" /\ ev.ok

\* C6: try_unwrap on a shared handle succeeds if and only if the count is
\* exactly 1 when it is called; a failed call leaves the count, the payload,
\* the handles and everything else as they were.
C6_TryUnwrapIffOne ==
  [][ev'.op = "try_unwrap" =>
       /\ ev'.ok <=> (strong = 1)
       /\ ~ev'.ok => UNCHANGED <<engine, strong, data, held, uniq, leaked, pc,
                                 dtorRuns, movedOut, freed, aborted>>]_vars

C6_Witness ==
  /\ engine = "Arc" /\ ev.op = "try_unwrap" /\ ~ev.ok
  /\ strong = 2 /\ Live = 2 /\ PayloadIntact

\* C7: a try_unwrap that succeeded has handed back the stored payload, the
\* block has been released exactly once, no handle to the allocation is left
\* and the payload destructor has not run.
C7_UnwrapReleasesBlock ==
  UnwrapReturned =>
    /\ ev.val = data
    /\ freed = 1
    /\ ~SomeHandle
    /\ dtorRuns = 0

\* C8: for every live shared handle, can_make_mut is true if and only if
\* reference_count is 1.
C8_CanMakeMutIffOne ==
  (\E t \in Threads : held[t] > 0) =>
    /\ engine = "Arc" => (ArcCanMakeMut <=> ArcReferenceCount = {1})
    /\ engine = "Rc" => (RcCanMakeMut <=> RcReferenceCount = {1})

C8_Witness ==
  /\ engine = "Arc" /\ ev.op = "can_make_mut" /\ ~ev.ok
  /\ strong = 2 /\ \E t \in Threads : held[t] > 0

\* C9: while an exclusive wrapper exists (made by new, or by
\* into_mut_unchecked when can_make_mut was true and no other thread had a
\* handle) the count is 1 and nothing else refers to the allocation: no
\* shared handle and no second wrapper.
C9_WrapperIsSoleOwner ==
  (\E t \in Threads : uniq[t] > 0) =>
    /\ strong = 1
    /\ \A t \in Threads : held[t] = 0
    /\ SumOver(uniq, Threads) = 1

\* C10: into_mut_unchecked and the conversion back each leave the count and
\* the payload as they are and only turn the one handle into the other; a
\* handle converted and converted back has the count it had before.
C10_RoundTrip ==
  [][/\ ev'.op = "into_mut_unchecked" =>
          /\ strong' = strong /\ data' = data /\ Live' = Live
          /\ \E t \in Threads : /\ held' = [held EXCEPT ![t] = @ - 1]
                                /\ uniq' = [uniq EXCEPT ![t] = @ + 1]
     /\ ev'.op = "into_shared" =>
          /\ strong' = strong /\ data' = data /\ Live' = Live
          /\ \E t \in Threads : /\ held' = [held EXCEPT ![t] = @ + 1]
                                /\ uniq' = [uniq EXCEPT ![t] = @ - 1]
     /\ ev.op = "into_mut_unchecked" /\ ev'.op = "into_shared" =>
          strong' = ev.old]_vars

C10_Witness ==
  /\ engine = "Rc" /\ ev.op = "into_shared" /\ strong = 1
  /\ Live = 1 /\ PayloadIntact

\* C11: in both engines, for every payload v, new(v) returns a handle to a
\* fresh allocation: the count is 1 (reference_count returns 1), the payload
\* is v, and the handle returned is the only one.
C11_NewCountOne ==
  ev.op \in {"new", "unique_new"} =>
    /\ ev.old = 0 /\ ev.val \in Payloads
    /\ strong = 1 /\ data = ev.val
    /\ Live = 1 /\ leaked = 0 /\ PayloadIntact /\ freed = 0
    /\ engine = "Arc" => ArcReferenceCount = {1}
    /\ engine = "Rc" => RcReferenceCount = {1}

C11_Witness ==
  /\ engine = "Rc" /\ ev.op = "new" /\ ev.val = MaxPayload
  /\ strong = 1 /\ data = MaxPayload /\ \E t \in Threads : held[t] = 1

\* C12: in both engines a clone that does not trip the overflow guard leaves
\* the count exactly 1 above the count just before it, adds one handle to
\* the same allocation, and leaves the payload as it is (not written, not
\* destructed, not moved, not released).
C12_CloneAddsOne ==
  [][ev'.op = "clone" /\ ev'.ok =>
       /\ strong' = strong + 1
       /\ Live' = Live + 1 /\ leaked' = leaked
       /\ engine' = engine /\ data' = data
       /\ dtorRuns' = dtorRuns /\ movedOut' = movedOut /\ freed' = freed]_vars

C12_Witness ==
  /\ engine = "Rc" /\ ev.op = "clone" /\ ev.ok
  /\ ev.old = 1 /\ strong = 2 /\ Live = 2 /\ data \in Payloads

\* C13: in both engines the stored count never exceeds the soft ceiling
\* MAX_REFCOUNT (isize::MAX) while the process runs.
C13_CountBelowCeiling ==
  engine # "none" /\ ~aborted => strong <= MAX_REFCOUNT

\* C14: in both engines no clone call, tripped or not, leaves the stored
\* count smaller than it was before the call: the counter never wraps.
C14_NoWrap ==
  ev.op = "clone" => strong >= ev.old

\* C18: no handle of an allocation of the single-owner engine, neither an Rc
\* nor a UniqueRc, is ever transferred to another thread.
C18_RcStaysOnThread ==
  engine = "Rc" => ev.op # "send"

\* C16: Arc, threads cloning and dropping concurrently: in every state the
\* count is the initial 1 plus the clones made minus the decrements made,
\* which is the number of handles in existence (no update is lost or made
\* twice); every clone adds exactly 1 and every drop takes exactly 1 whatever
\* the other threads are doing; and a thread that owns a handle can always
\* drop or clone it at once, without waiting for another thread.
C16_CounterLinearizable ==
  /\ [](engine = "Arc" =>
          /\ strong = Live
          /\ \A t \in Threads :
               held[t] > 0 /\ pc[t] = "idle" =>
                 /\ ENABLED OrdDrop(t)
                 /\ Live < MaxLive => ENABLED OrdClone(t))
  /\ [][/\ ev'.op = "clone" => strong' = strong + 1 /\ Live' = Live + 1
        /\ ev'.op = "drop" => strong' = strong - 1 /\ Live' = Live - 1]_vars

\* two threads own one handle each, the second made by a clone through a
\* shared borrow of the first
C16_Witness ==
  /\ engine = "Arc" /\ ev.op = "clone" /\ ev.ok /\ strong = 2
  /\ \A t \in 1..2 : held[t] = 1 /\ pc[t] = "idle"

\* C17: Arc: the answer of can_make_mut (reference_count == 1) is true only
\* of the instant of the read: it is given exactly when the count is 1, and
\* while the thread relies on it nothing keeps another thread from cloning
\* the handle through a shared borrow, which makes the count 2.
C17_SnapshotMayBeStale ==
  /\ [][\A t \in Threads :
          pc[t] # "checked" /\ pc'[t] = "checked" => strong = 1 /\ strong' = 1]_vars
  /\ [](\A t \in Threads :
          pc[t] = "checked" =>
            /\ held[t] >= 1 /\ strong >= 1
            /\ Live < MaxLive => \A u \in Threads \ {t} : ENABLED OrdCloneBorrowed(u, t))

\* a thread relies on the answer true while the count is 2: another thread
\* has cloned its handle since
C17_Witness ==
  \E t \in Threads, u \in Threads :
    /\ t # u /\ pc[t] = "checked" /\ held[t] = 1 /\ held[u] = 1
    /\ engine = "Arc" /\ strong = 2 /\ ev.op = "clone" /\ ev.ok

\* C20: Arc: the decrement of a drop orders every payload access its thread
\* has made before the head of the counter's release sequence; the
\* destructor run of the final drop and the move-out of try_unwrap come after
\* an acquire fence and are never concurrent with a payload access of another
\* thread; and no payload access comes after them.
C20_AccessBeforeDestruction ==
  /\ [](~hb.race)
  /\ [][\A t \in Threads : OrdDrop(t) => t \notin hb'.cpend]_vars
  /\ [][dtorRuns > 0 \/ movedOut > 0 =>
          ev'.op \notin {"deref", "get_mut_unchecked"}]_vars

\* the destructor has run after two threads accessed the payload
C20_Witness ==
  /\ engine = "Arc" /\ ev.op = "drop_slow" /\ dtorRuns = 1
  /\ Cardinality(hb.acc) >= 2 /\ ~hb.race

\* every thread of the stress scenario has made its increments and dropped
\* its handle, and the original is dropped too
StressDone == engine = "Arc" /\ Live = 0 /\ Idle

\* C15: the stress scenario, N = NumThreads - 1 threads of StressIncs
\* increments each: in every interleaving at most one drop reads the count 1
\* (takes the count to 0), that drop is made when no handle is left and the
\* counter payload is N * StressIncs, it alone runs the destructor, on that
\* value, and when all handles are dropped the destructor has run exactly once.
C15_StressOneFinalDrop ==
  /\ Cardinality({t \in Threads : pc[t] = "drop_slow"}) + dtorRuns <= 1
  /\ ev.op = "drop" /\ ev.ok =>
       ev.old = 1 /\ Live = 0 /\ data = (NumThreads - 1) * StressIncs
  /\ ev.op = "drop" /\ ~ev.ok => Live > 0 /\ dtorRuns = 0 /\ Idle
  /\ ev.op = "drop_slow" => dtorRuns = 1 /\ data = (NumThreads - 1) * StressIncs
  /\ StressDone => dtorRuns = 1 /\ data = (NumThreads - 1) * StressIncs

\* the scenario has ended: every thread made its increments, and the
\* destructor ran once, ordered after all of them
C15_Witness ==
  /\ StressDone /\ dtorRuns = 1 /\ ev.op = "drop_slow"
  /\ data = (NumThreads - 1) * StressIncs
  /\ \A w \in Workers : incs[w] = StressIncs
  /\ hb.acc = Workers /\ ~hb.race

\* C19: a single-threaded sequence of at most MaxOps operations new, clone,
\* drop, try_unwrap, reference_count, can_make_mut (at most MaxLive handles, so
\* below the overflow guards) run on one engine and then on the other: every
\* operation of the second run returns what it returned in the first (same
\* count, same try_unwrap success and value, same can_make_mut) and runs the
\* destructor iff it did in the first, and every operation of the first run
\* can be made in the second.
C19_EnginesAgree ==
  /\ ~twin.diff
  /\ twin.phase = "second" /\ twin.pos <= Len(twin.log) => ENABLED NextTwin

\* a sequence of MaxOps operations with a clone and the destructor run by the
\* last drop, recorded on Arc and replayed to its end on Rc
C19_Witness ==
  /\ twin.phase = "second" /\ twin.eng = "Arc" /\ engine = "Rc"
  /\ Len(twin.log) = MaxOps /\ twin.pos = MaxOps + 1
  /\ ~twin.diff
  /\ \E i \in 1..MaxOps : twin.log[i].op = "clone" /\ twin.log[i].ok
  /\ twin.log[MaxOps].op = "drop" /\ twin.log[MaxOps].dtor
  /\ dtorRuns = 1

\* C21: in the operation that both destroys the payload and releases the
\* block (Rc's last drop; Arc has none, it releases no block) the destructor
\* has run, in a step of its own, before the step that releases (a release
\* after a move-out, in try_unwrap, follows no destructor), and after the
\* release no step is taken that reads or writes the block: no operation is
\* in progress and no handle is left to start one with.
C21_DestructThenRelease ==
  /\ [][freed' # freed =>
          freed = 0 /\ dtorRuns' = dtorRuns /\ dtorRuns + movedOut = 1]_vars
  /\ [][dtorRuns' # dtorRuns /\ engine = "Rc" => freed = 0 /\ freed' = 0]_vars
  /\ [][freed > 0 => ev'.op \in {"send", "forget"}]_vars
  /\ [](freed > 0 => Live = 0 /\ Idle)

\* Rc's last drop has destroyed the payload and then released the block
C21_Witness ==
  /\ engine = "Rc" /\ ev.op = "dealloc" /\ dtorRuns = 1 /\ freed = 1 /\ movedOut = 0
  /\ Idle /\ Live = 0

\* C22: Arc: no clone reads the count 0 in its fetch_add (the count it
\* increments is that of an allocation still shared), so a count that has
\* reached 0 does not become positive again.
C22_NoCloneFromZero == engine = "Arc" /\ ev.op = "clone" => ev.old # 0

\* C23: Rc: a clone call aborts the process iff the count it reads is 0 or
\* usize::MAX, and then the count is as it was and no handle is made; any
\* other clone stores the count + 1; and no clone reads the count 0.
C23_RcCloneGuard ==
  engine = "Rc" /\ ev.op = "clone" =>
    /\ ev.old # 0
    /\ ~ev.ok <=> ev.old \in {0, USIZE_MAX}
    /\ ~ev.ok => aborted /\ strong = ev.old
    /\ ev.ok => ~aborted /\ strong = ev.old + 1

\* C24: try_unwrap on an exclusive wrapper (UniqueArc, UniqueRc) always
\* returns Ok with the payload, whatever the count, and when it has returned
\* the payload has not been destroyed and no handle to the allocation is
\* left, owned or leaked, that could destroy it later.
C24_UniqueUnwrapTakesAll ==
  ev.op = "unique_try_unwrap" =>
    /\ ev.ok /\ ev.val = data /\ ev.val \in Payloads
    /\ dtorRuns = 0
    /\ Live = 0 /\ leaked = 0

\* the main thread holds one of the only two handles, or the last one
RaceOn == engine = "Arc" /\ held[Main] = 1 /\ pc[Main] = "idle"

\* C25: Arc, two handles only, one thread calls try_unwrap on its handle
\* while another drops the other one.  A try_unwrap that fails has read the
\* count 2, keeps its handle and leaves count and payload alone, and once the
\* drop is done the count is 1 and the payload intact; a try_unwrap that
\* succeeds has read the count 1 left by the drop and returns the payload.
\* The drop never runs the destructor, the payload is never both moved out
\* and destroyed, its move-out is ordered after every access made through
\* the dropped handle, and at every moment it has an owner: a handle, or the
\* caller of the successful try_unwrap.
C25_UnwrapAgainstDrop ==
  /\ \A t \in Threads : pc[t] # "drop_slow"
  /\ dtorRuns = 0 /\ movedOut <= 1 /\ ~hb.race
  /\ ev.op = "try_unwrap" /\ ~ev.ok =>
       ev.old = 2 /\ strong = Live /\ held[Main] = 1 /\ PayloadIntact
  /\ RaceOn /\ Live = 1 => strong = 1 /\ PayloadIntact
  /\ ev.op = "reference_count" => ev.ok /\ ev.val = Live /\ ev.val \in {1, 2}
  /\ ev.op = "try_unwrap" /\ ev.ok => ev.old = 1 /\ strong = 0 /\ Live = 0
  /\ ev.op = "try_unwrap_ret" =>
       ev.val = data /\ ev.val \in Payloads /\ movedOut = 1 /\ Live = 0 /\ strong = 0
  /\ engine = "Arc" => Live > 0 \/ pc[Main] = "unwrap_read" \/ movedOut = 1

\* the try_unwrap failed at count 2, the other handle was then dropped, and
\* the main thread is left with the only handle of an intact payload
C25_WitnessFailed ==
  /\ RaceOn /\ Live = 1 /\ strong = 1 /\ PayloadIntact
  /\ ev.op = "drop" /\ ~ev.ok /\ ev.old = 2

\* the other handle was dropped after both threads had read the payload, and
\* the try_unwrap then succeeded
C25_Witness ==
  /\ ev.op = "try_unwrap_ret" /\ movedOut = 1 /\ dtorRuns = 0 /\ Live = 0
  /\ Main \in hb.acc /\ hb.acc # {Main} /\ ~hb.race

====
